---------------------------- MODULE Spec2Model ----------------------------
(***************************************************************************)
(* MIMOSIS-1 slow control (src/mimosis/mimosis.py): the register block I/O *)
(* of class Msis1 on its simulated device, the bit-flip detection loop     *)
(* (runBitFlipSearch) and the beam-position subscriber                     *)
(* (MicrobeamSubscriberSocket), as one state machine.                      *)
(*                                                                         *)
(* Python values are tagged records (PyNone, PyBool, PyInt, PyBytes) so    *)
(* that values of different Python types can sit in one variable.  Byte    *)
(* buffers are sequences: index i of the code is index i+1 here.  An       *)
(* optional integer (None or an int) is the sequence <<>> or <<n>>.        *)
(***************************************************************************)
EXTENDS Integers, Sequences, FiniteSets, TLC

VARIABLES
    beamControl,   \* self.beamControl
    simRegs,       \* self.simRegs, sparse: row -> column -> cell (absent = [0x00,0x00])
    simAddrMSB,    \* self.simAddrMSB (<<>> until the first ADD_MSB)
    simAddrLSB,    \* self.simAddrLSB (<<>> until the first ADD_LSB)
    lastRead,      \* self.lastRead
    simReadFlip,   \* self.simReadFlip
    bitFlipFound,  \* self.bitFlipFound
    bitFlipResult, \* self.bitFlipResult
    ncalls,        \* how many calls were made from outside so far
    wire,          \* transport calls (chipwrite/chipread) made by the latest API call
    call,          \* the latest API call: its name, argument buffer and mode
    buf,           \* the caller's buffer after the latest API call
    ret,           \* what the latest API call returned (or the exception it raised)
    function,      \* runBitFlipSearch's argument: the read function polled
    update,        \* runBitFlipSearch's argument: None or the corrective actions
    supPc,         \* the supervising coroutine __asyncBitFlips
    loopPc,        \* the task __checkBitFlipLoop
    subPc,         \* the task __readScanPos
    reference,     \* __checkBitFlipLoop's local reference
    counter,       \* __checkBitFlipLoop's local counter
    reads,         \* history: every value function() returned in this run
    out,           \* the mismatch reports printed by __checkBitFlipLoop
    conn,          \* tcpSocket.reader/writer: "none" or "open"
    scanId,        \* tcpSocket.scanId
    scan_x,        \* tcpSocket.scan_x
    scan_y         \* tcpSocket.scan_y

devVars  == <<simRegs, simAddrMSB, simAddrLSB, lastRead>>
apiVars  == <<ncalls, wire, call, buf, ret>>
runVars  == <<function, update, supPc, loopPc, subPc, reference, counter, reads, out,
              bitFlipFound, bitFlipResult, simReadFlip>>
sockVars == <<conn, scanId, scan_x, scan_y>>
vars     == <<beamControl, devVars, apiVars, runVars, sockVars>>

---------------------------------------------------------------------------
(* Python values *)

PyNone     == [t |-> "None"]
PyBool(b)  == [t |-> "bool", v |-> b]
PyInt(n)   == [t |-> "int", v |-> n]
PyBytes(b) == [t |-> "bytes", v |-> b]
PyRaise(e) == [t |-> "raise", v |-> e]

\* bytearray(n)
Zeros(n) == [i \in 1..n |-> 0]

---------------------------------------------------------------------------
(* Python's integer operators &, | and ^ on non-negative integers *)

RECURSIVE BitAnd(_, _)
BitAnd(a, b) ==
    IF a = 0 \/ b = 0 THEN 0
    ELSE (a % 2) * (b % 2) + 2 * BitAnd(a \div 2, b \div 2)

RECURSIVE BitOr(_, _)
BitOr(a, b) ==
    IF a = 0 THEN b
    ELSE IF b = 0 THEN a
    ELSE (IF a % 2 = 1 \/ b % 2 = 1 THEN 1 ELSE 0) + 2 * BitOr(a \div 2, b \div 2)

RECURSIVE BitXor(_, _)
BitXor(a, b) ==
    IF a = 0 THEN b
    ELSE IF b = 0 THEN a
    ELSE ((a + b) % 2) + 2 * BitXor(a \div 2, b \div 2)

\* a << k
Shl(a, k) == a * 2^k

---------------------------------------------------------------------------
(* Msis1.__init__: the constant tables *)

\* self.GenConf, in dictionary (wire) order
GenConfDefault == <<64, 110, 0, 0, 0, 0, 0, 1, 1, 22, 0, 0, 21, 0, 23, 0>>

\* self.DAC, in dictionary (wire) order
DACDefault == <<64, 52, 28, 171, 70, 85, 0, 67, 1, 1, 1, 1, 83, 50, 125>>

\* self.CMDID
CMDID ==
    [INSTR |-> 1, ADD_MSB |-> 2, ADD_LSB |-> 3, WR |-> 4, RD |-> 5,
     WR_IND |-> 6, RD_IND |-> 7, WR_OFF |-> 8, RD_OFF |-> 9]

\* self.ADDRS: [MSB select byte, LSB base byte]
ADDRS ==
    [GenConf   |-> <<0, 32>>,
     DAC       |-> <<0, 64>>,
     SeqConf   |-> <<0, 96>>,
     PixCtrl   |-> <<0, 128>>,
     Mon       |-> <<0, 224>>,
     MFE       |-> <<128, 0>>,
     AnaPixSel |-> <<128, 32>>,
     RoTstConf |-> <<128, 64>>]

\* the sizes the code works with
GenConfSize   == 16
DACSize       == 15
RoTstConfSize == 20
MFERegions    == 64
MFEFrames     == 8
MFESize       == MFERegions * MFEFrames

\* a cell of self.simRegs as __init__ fills it
InitCell == <<0, 0>>

\* self.simRegs after __init__: no cell written yet
InitSimRegs == [m \in {} |-> [l \in {} |-> InitCell]]

---------------------------------------------------------------------------
(* The object state the block operations work on:                          *)
(* [simRegs, simAddrMSB, simAddrLSB, lastRead, wire]                       *)

Self ==
    [simRegs |-> simRegs, simAddrMSB |-> simAddrMSB, simAddrLSB |-> simAddrLSB,
     lastRead |-> lastRead, wire |-> <<>>]

\* self.simRegs[m][l]
Cell(regs, m, l) ==
    IF m \in DOMAIN regs /\ l \in DOMAIN regs[m] THEN regs[m][l] ELSE InitCell

\* self.simRegs[m][l] = args
SetCell(regs, m, l, args) ==
    IF m \notin DOMAIN regs THEN (m :> (l :> args)) @@ regs
    ELSE IF l \notin DOMAIN regs[m] THEN [regs EXCEPT ![m] = (l :> args) @@ @]
    ELSE [regs EXCEPT ![m][l] = args]

\* self.chipid: the constructor's default
chipid == 1

\* a faulty header byte that keeps only two bits of the chip id
cmdByteTwoBits(chip, cmdId) ==
    BitOr(Shl(BitAnd(3, chip), 4), BitAnd(15, CMDID[cmdId]))

\* getCmdByte, for an object whose chip id is chip
cmdByte(chip, cmdId) ==
    BitOr(Shl(BitAnd(7, chip), 4), BitAnd(15, CMDID[cmdId]))

\* self.getCmdByte(cmdId), for every command
CmdBytes == [c \in DOMAIN CMDID |-> cmdByte(chipid, c)]

getCmdByte(cmdId) == CmdBytes[cmdId]

\* a faulty writeSim, which logs WR and stores nothing: the round trip of a
\* block tells it from writeSim
writeSimDropsWR(s, addr, args) ==
    LET logged == [s EXCEPT !.wire = Append(@, <<"write", addr, args>>)]
    IN  IF addr = getCmdByte("ADD_LSB") /\ Len(args) = 1
        THEN [logged EXCEPT !.simAddrLSB = <<args[1]>>]
        ELSE IF addr = getCmdByte("ADD_MSB") /\ Len(args) = 1
        THEN [logged EXCEPT !.simAddrMSB = <<args[1]>>]
        ELSE logged

\* a faulty writeSim, in which ADD_MSB also clears a cell of the row selected:
\* a transaction other than WR then changes the store
writeSimMSBClears(s, addr, args) ==
    LET logged == [s EXCEPT !.wire = Append(@, <<"write", addr, args>>)]
    IN  IF addr = getCmdByte("ADD_LSB") /\ Len(args) = 1
        THEN [logged EXCEPT !.simAddrLSB = <<args[1]>>]
        ELSE IF addr = getCmdByte("ADD_MSB") /\ Len(args) = 1
        THEN [logged EXCEPT !.simAddrMSB = <<args[1]>>,
                            !.simRegs = SetCell(@, args[1], 32, <<0>>)]
        ELSE IF addr = getCmdByte("WR")
        THEN [logged EXCEPT
                 !.simRegs = SetCell(@, s.simAddrMSB[1], s.simAddrLSB[1], args)]
        ELSE logged

\* writeSim(addr, *args): the object after the call (it returns len(args))
writeSim(s, addr, args) ==
    LET logged == [s EXCEPT !.wire = Append(@, <<"write", addr, args>>)]
    IN  IF addr = getCmdByte("ADD_LSB") /\ Len(args) = 1
        THEN [logged EXCEPT !.simAddrLSB = <<args[1]>>]
        ELSE IF addr = getCmdByte("ADD_MSB") /\ Len(args) = 1
        THEN [logged EXCEPT !.simAddrMSB = <<args[1]>>]
        ELSE IF addr = getCmdByte("WR")
        THEN [logged EXCEPT
                 !.simRegs = SetCell(@, s.simAddrMSB[1], s.simAddrLSB[1], args)]
        ELSE logged

\* readSim(addr) with no further argument: length is 1
readSim(s, addr) ==
    IF addr = getCmdByte("RD")
    THEN Cell(s.simRegs, s.simAddrMSB[1], s.simAddrLSB[1])[1]
    ELSE 0

\* the bit read() flips when its 0.1 % draw fires: result ^ ((result << k) & 0x80)
FlipBit(result, k) == BitXor(result, BitAnd(Shl(result, k), 128))

\* write(addr, *args)
write(s, addr, args) == writeSim(s, addr, args)

\* read(addr): rnd maps the byte indices at which random.randint(0,999) gave 0
\* to the value of random.randint(0,7); i is the index of the byte being read
read(s, addr, rnd, i) ==
    LET result == readSim(s, addr)
    IN  IF simReadFlip /\ i \in DOMAIN rnd THEN FlipBit(result, rnd[i]) ELSE result

\* the chipread call read() makes, as the transport sees it
logRead(s, addr) == [s EXCEPT !.wire = Append(@, <<"read", addr>>)]

---------------------------------------------------------------------------
(* Register block I/O.  Each operation gives [self, buf, ret]: the object  *)
(* after the call, the buffer it was handed after the call, and the value  *)
(* returned (PyRaise when the call ends in an exception).                  *)

\* getBytesFromDict
getBytesFromDict(d) == [i \in 1..Len(d) |-> d[i]]

\* the transfer of byte i every block loop ends with, on the object s with the
\* cell selected:  buf[i] = self.read(RD)  in mode 'r',  self.write(WR, buf[i])
\* otherwise.  Past the end of buf the read is made and the assignment raises
\* IndexError; the write raises before it is made.
transfer(s, b, mode, rnd, i) ==
    IF mode = "r"
    THEN [self   |-> logRead(s, getCmdByte("RD")),
          buf    |-> IF i < Len(b)
                     THEN [b EXCEPT ![i + 1] = read(s, getCmdByte("RD"), rnd, i)]
                     ELSE b,
          raised |-> i >= Len(b)]
    ELSE IF i >= Len(b) THEN [self |-> s, buf |-> b, raised |-> TRUE]
    ELSE [self   |-> write(s, getCmdByte("WR"), <<b[i + 1]>>),
          buf    |-> b,
          raised |-> FALSE]

\* return len(buf), or the IndexError that ended the loop r
rwEnd(r) ==
    [self |-> r.self, buf |-> PyBytes(r.buf),
     ret  |-> IF r.raised THEN PyRaise("IndexError") ELSE PyInt(Len(r.buf))]

\* return readBytes / writeBytes after the rw call r
bytesEnd(r) ==
    [self |-> r.self, buf |-> r.buf,
     ret  |-> IF r.ret.t = "raise" THEN r.ret ELSE r.buf]

\* A for loop runs its passes one after the other and stops at the first that
\* raises.  The loops below are written over a range of indices lo..hi-1: the
\* passes of the first half, then (Rest) those of the second half.

RECURSIVE rwReg16wLoop(_, _, _, _, _, _, _)
\* rwReg16w's for loop from index lo on, after the passes r before lo
rwReg16wRest(r, type, mode, rnd, lo, hi) ==
    IF r.raised THEN r ELSE rwReg16wLoop(r.self, type, r.buf, mode, rnd, lo, hi)

\* rwReg16w's for loop, for i in lo..hi-1
rwReg16wLoop(s, type, b, mode, rnd, lo, hi) ==
    IF hi <= lo THEN [self |-> s, buf |-> b, raised |-> FALSE]
    ELSE IF hi = lo + 1
    THEN transfer(write(s, getCmdByte("ADD_LSB"),
                        <<BitOr(BitAnd(ADDRS[type][2], 240), lo)>>),
                  b, mode, rnd, lo)
    ELSE rwReg16wRest(rwReg16wLoop(s, type, b, mode, rnd, lo, (lo + hi) \div 2),
                      type, mode, rnd, (lo + hi) \div 2, hi)

\* a faulty size check, which lets a buffer one byte short through
Reg16wTooSmallByTwo(type, b) ==
    \/ type = "GenConf" /\ Len(b) < GenConfSize - 1
    \/ (type = "DAC" \/ type = "Mon") /\ Len(b) < DACSize - 1

\* the size check of rwReg16w: TRUE when the buffer is refused
Reg16wTooSmall(type, b) ==
    \/ type = "GenConf" /\ Len(b) < GenConfSize
    \/ (type = "DAC" \/ type = "Mon") /\ Len(b) < DACSize

\* rwReg16w(type, buf, mode); self.confLoaded is never True
rwReg16w(s, type, b, mode, rnd) ==
    IF type \notin {"GenConf", "DAC", "Mon"}
    THEN [self |-> s, buf |-> b, ret |-> PyBool(FALSE)]
    ELSE IF b.t = "None"
    THEN [self |-> s, buf |-> b, ret |-> PyBool(FALSE)]
    ELSE IF Reg16wTooSmall(type, b.v)
    THEN [self |-> s, buf |-> b, ret |-> PyBool(FALSE)]
    ELSE rwEnd(rwReg16wLoop(write(s, getCmdByte("ADD_MSB"), <<ADDRS[type][1]>>),
                            type, b.v, mode, rnd, 0, Len(b.v)))

\* the block readGenConf reads
ReadGenConfType == "GenConf"
\* the block readDAC reads
ReadDACType == "DAC"
\* the block readMon reads
ReadMonType == "DAC"
\* the block writeMon writes
WriteMonType == "DAC"

\* self.lastRead = readBytes; return readBytes, after the rwReg16w call r
lastReadEnd(r) ==
    [self |-> [r.self EXCEPT !.lastRead = r.buf.v], buf |-> r.buf, ret |-> r.buf]

\* readGenConf / readDAC / readMon: type and n are the block and the buffer size
readReg16w(s, type, n, rnd) ==
    lastReadEnd(rwReg16w(s, type, PyBytes(Zeros(n)), "r", rnd))

readGenConf(s, rnd) == readReg16w(s, ReadGenConfType, GenConfSize, rnd)
readDAC(s, rnd)     == readReg16w(s, ReadDACType, DACSize, rnd)
readMon(s, rnd)     == readReg16w(s, ReadMonType, DACSize, rnd)

writeGenConf(s, writeBytes) ==
    rwReg16w(s, "GenConf",
             IF writeBytes.t = "None" THEN PyBytes(getBytesFromDict(GenConfDefault))
             ELSE writeBytes, "w", <<>>)

writeDAC(s, writeBytes) ==
    rwReg16w(s, "DAC",
             IF writeBytes.t = "None" THEN PyBytes(getBytesFromDict(DACDefault))
             ELSE writeBytes, "w", <<>>)

writeMon(s, writeBytes) == rwReg16w(s, WriteMonType, writeBytes, "w", <<>>)

RECURSIVE rwRoTstConfLoop(_, _, _, _, _, _)
\* rwRoTstConf's for loop from index lo on, after the passes r before lo
rwRoTstConfRest(r, mode, rnd, lo, hi) ==
    IF r.raised THEN r ELSE rwRoTstConfLoop(r.self, r.buf, mode, rnd, lo, hi)

\* rwRoTstConf's for loop, for i in lo..hi-1 (offset is 0x40 + i)
rwRoTstConfLoop(s, b, mode, rnd, lo, hi) ==
    IF hi <= lo THEN [self |-> s, buf |-> b, raised |-> FALSE]
    ELSE IF hi = lo + 1
    THEN transfer(write(s, getCmdByte("ADD_LSB"), <<64 + lo>>), b, mode, rnd, lo)
    ELSE rwRoTstConfRest(rwRoTstConfLoop(s, b, mode, rnd, lo, (lo + hi) \div 2),
                         mode, rnd, (lo + hi) \div 2, hi)

\* a faulty rwRoTstConf, which selects the row of DAC: its cells then overlap
\* the DAC block
rwRoTstConfRowOfDAC(s, b, mode, rnd) ==
    rwEnd(rwRoTstConfLoop(
            write(s, getCmdByte("ADD_MSB"), <<ADDRS["DAC"][1]>>),
            b.v, mode, rnd, 0, RoTstConfSize))

\* rwRoTstConf(buf, mode)
rwRoTstConf(s, b, mode, rnd) ==
    rwEnd(rwRoTstConfLoop(
            write(s, getCmdByte("ADD_MSB"), <<ADDRS["RoTstConf"][1]>>),
            b.v, mode, rnd, 0, RoTstConfSize))

readRoTstConf(s, rnd) ==
    bytesEnd(rwRoTstConf(s, PyBytes(Zeros(RoTstConfSize)), "r", rnd))

writeRoTstConf(s, writeBytes) ==
    bytesEnd(rwRoTstConf(s, IF writeBytes.t = "None"
                            THEN PyBytes([i \in 1..RoTstConfSize |-> 85])
                            ELSE writeBytes, "w", <<>>))

RECURSIVE rwMFEFrames(_, _, _, _, _, _, _)
\* rwMFE's inner loop from frame lo on, after the passes r before lo
rwMFEFramesRest(r, mode, rnd, region, lo, hi) ==
    IF r.raised THEN r ELSE rwMFEFrames(r.self, r.buf, mode, rnd, region, lo, hi)

\* the inner loop of rwMFE for one region, for frame in lo..hi-1
rwMFEFrames(s, b, mode, rnd, region, lo, hi) ==
    IF hi <= lo THEN [self |-> s, buf |-> b, raised |-> FALSE]
    ELSE IF hi = lo + 1
    THEN transfer(write(s, getCmdByte("ADD_LSB"),
                        <<BitOr(BitAnd(ADDRS["MFE"][2], 248), BitAnd(lo, 7))>>),
                  b, mode, rnd, region * 8 + lo)
    ELSE rwMFEFramesRest(rwMFEFrames(s, b, mode, rnd, region, lo, (lo + hi) \div 2),
                         mode, rnd, region, (lo + hi) \div 2, hi)

RECURSIVE rwMFERegions(_, _, _, _, _, _)
\* rwMFE's outer loop from region lo on, after the passes r before lo
rwMFERegionsRest(r, mode, rnd, lo, hi) ==
    IF r.raised THEN r ELSE rwMFERegions(r.self, r.buf, mode, rnd, lo, hi)

\* the outer loop of rwMFE, for region in lo..hi-1
rwMFERegions(s, b, mode, rnd, lo, hi) ==
    IF hi <= lo THEN [self |-> s, buf |-> b, raised |-> FALSE]
    ELSE IF hi = lo + 1
    THEN rwMFEFrames(write(s, getCmdByte("ADD_MSB"),
                           <<BitOr(BitAnd(ADDRS["MFE"][1], 128), BitAnd(lo, 63))>>),
                     b, mode, rnd, lo, 0, MFEFrames)
    ELSE rwMFERegionsRest(rwMFERegions(s, b, mode, rnd, lo, (lo + hi) \div 2),
                          mode, rnd, (lo + hi) \div 2, hi)

\* rwMFE(buf, mode)
rwMFE(s, b, mode, rnd) == rwEnd(rwMFERegions(s, b.v, mode, rnd, 0, MFERegions))

readMFE(s, rnd) == bytesEnd(rwMFE(s, PyBytes(Zeros(MFESize)), "r", rnd))

writeMFE(s, writeBytes) ==
    bytesEnd(rwMFE(s, IF writeBytes.t = "None"
                      THEN PyBytes([i \in 1..MFESize |-> 85])
                      ELSE writeBytes, "w", <<>>))

\* updateRegs
updateRegs(s) == writeDAC(writeGenConf(s, PyNone).self, PyNone).self

---------------------------------------------------------------------------
(* The state after Msis1(sim=True, beamControl=bc) *)

\* what an optional integer holds
None == <<>>
Some(n) == <<n>>

\* the object after __init__
ConstructedSelf ==
    [simRegs |-> InitSimRegs, simAddrMSB |-> None, simAddrLSB |-> None,
     lastRead |-> Zeros(16), wire |-> <<>>]

\* the state in which the object is o, no call of the session modelled was made
\* yet and no run was started
Fresh(o, bc) ==
    /\ beamControl = bc
    /\ simRegs = o.simRegs
    /\ simAddrMSB = o.simAddrMSB
    /\ simAddrLSB = o.simAddrLSB
    /\ lastRead = o.lastRead
    /\ simReadFlip = FALSE
    /\ bitFlipFound = FALSE
    /\ bitFlipResult = <<>>
    /\ conn = "none"
    /\ scanId = IF bc THEN None ELSE Some(0)
    /\ scan_x = IF bc THEN None ELSE Some(0)
    /\ scan_y = IF bc THEN None ELSE Some(0)
    /\ ncalls = 0
    /\ wire = <<>>
    /\ call = [name |-> "none"]
    /\ buf = PyNone
    /\ ret = PyNone
    /\ function = "none"
    /\ update = PyNone
    /\ supPc = "idle"
    /\ loopPc = "none"
    /\ subPc = "none"
    /\ reference = <<>>
    /\ counter = 0
    /\ reads = <<>>
    /\ out = <<>>

---------------------------------------------------------------------------
(* The block operations as calls from outside, on the simulated device.    *)
(* simReadFlip is False until runBitFlipSearch sets it, so no draw fires.  *)

\* calls from outside per session
MaxCalls == 2

\* a buffer of n bytes, no two of them alike within any 64 and none the byte
\* 256 places on
Ramp(n) == [i \in 1..n |-> (37 * i + (i \div 256) * 5 + 11) % 256]

\* the fixed size of each block
BlockSize(type) ==
    CASE type = "GenConf" -> GenConfSize
      [] type = "DAC" -> DACSize
      [] type = "Mon" -> DACSize
      [] type = "RoTstConf" -> RoTstConfSize
      [] type = "MFE" -> MFESize

\* objects the program can be in when the session modelled starts: just
\* constructed, and after updateRegs()
PriorObjects == {ConstructedSelf, updateRegs(ConstructedSelf)}

\* the effect of a call that gave r = [self, buf, ret]
Effect(name, r) ==
    /\ simRegs' = r.self.simRegs
    /\ simAddrMSB' = r.self.simAddrMSB
    /\ simAddrLSB' = r.self.simAddrLSB
    /\ lastRead' = r.self.lastRead
    /\ ncalls' = ncalls + 1
    /\ wire' = r.self.wire
    /\ call' = name
    /\ buf' = r.buf
    /\ ret' = r.ret
    /\ UNCHANGED <<beamControl, runVars, sockVars>>

\* a call from outside can be made: no run is in progress
CanCall == supPc = "idle" /\ ncalls < MaxCalls

CallReadGenConf ==
    /\ CanCall
    /\ Effect([name |-> "readGenConf", type |-> "GenConf"], readGenConf(Self, <<>>))

CallReadDAC ==
    /\ CanCall
    /\ Effect([name |-> "readDAC", type |-> "DAC"], readDAC(Self, <<>>))

CallReadMon ==
    /\ CanCall
    /\ Effect([name |-> "readMon", type |-> "Mon"], readMon(Self, <<>>))

CallReadRoTstConf ==
    /\ CanCall
    /\ Effect([name |-> "readRoTstConf", type |-> "RoTstConf"], readRoTstConf(Self, <<>>))

CallReadMFE ==
    /\ CanCall
    /\ Effect([name |-> "readMFE", type |-> "MFE"], readMFE(Self, <<>>))

CallWriteGenConf(Args) ==
    /\ CanCall
    /\ \E b \in Args :
         Effect([name |-> "writeGenConf", type |-> "GenConf", arg |-> b],
                writeGenConf(Self, b))

CallWriteDAC(Args) ==
    /\ CanCall
    /\ \E b \in Args :
         Effect([name |-> "writeDAC", type |-> "DAC", arg |-> b], writeDAC(Self, b))

CallWriteMon(Args) ==
    /\ CanCall
    /\ \E b \in Args :
         Effect([name |-> "writeMon", type |-> "Mon", arg |-> b], writeMon(Self, b))

CallWriteRoTstConf(Args) ==
    /\ CanCall
    /\ \E b \in Args :
         Effect([name |-> "writeRoTstConf", type |-> "RoTstConf", arg |-> b],
                writeRoTstConf(Self, b))

CallWriteMFE(Args) ==
    /\ CanCall
    /\ \E b \in Args :
         Effect([name |-> "writeMFE", type |-> "MFE", arg |-> b], writeMFE(Self, b))

\* the buffers a caller hands to the write of a block: none (the default is
\* written) or one of the block's size
FullArgs(type) ==
    {PyNone, PyBytes(Ramp(BlockSize(type))), PyBytes([i \in 1..BlockSize(type) |-> 255])}

\* the same and a buffer one byte short
AnyArgs(type) == FullArgs(type) \cup {PyBytes(Ramp(BlockSize(type) - 1))}

\* buffer lengths handed to rwReg16w: one short, exact, one long
Reg16wLens(type) ==
    LET n == IF type = "GenConf" THEN GenConfSize ELSE DACSize
    IN  {n - 1, n, n + 1}

CallRwReg16w ==
    /\ CanCall
    /\ \E type \in {"GenConf", "DAC", "Mon", "MFE"}, mode \in {"r", "w"} :
         \E b \in {PyNone} \cup {PyBytes(Ramp(n)) : n \in Reg16wLens(type)} :
            Effect([name |-> "rwReg16w", type |-> type, mode |-> mode, arg |-> b],
                   rwReg16w(Self, type, b, mode, <<>>))

(* Spec: the read and write operations of the four blocks GenConf, DAC,    *)
(* RoTstConf and MFE, called in any order with buffers of the block's size *)
Init == \E o \in PriorObjects : Fresh(o, FALSE)

Next ==
    \/ CallReadGenConf
    \/ CallReadDAC
    \/ CallReadRoTstConf
    \/ CallReadMFE
    \/ CallWriteGenConf(FullArgs("GenConf"))
    \/ CallWriteDAC(FullArgs("DAC"))
    \/ CallWriteRoTstConf(FullArgs("RoTstConf"))
    \/ CallWriteMFE(FullArgs("MFE"))

Spec == Init /\ [][Next]_vars

(* SpecReg16w: rwReg16w and its wrappers for GenConf, DAC and Mon, called  *)
(* with buffers of any length                                              *)
InitReg16w == \E o \in PriorObjects : Fresh(o, FALSE)

NextReg16w ==
    \/ CallRwReg16w
    \/ CallReadGenConf
    \/ CallReadDAC
    \/ CallReadMon
    \/ CallWriteGenConf(AnyArgs("GenConf"))
    \/ CallWriteDAC(AnyArgs("DAC"))
    \/ CallWriteMon(AnyArgs("Mon"))

SpecReg16w == InitReg16w /\ [][NextReg16w]_vars

---------------------------------------------------------------------------
(* MicrobeamSubscriberSocket.read_msg: a line is a sequence of characters  *)

Whitespace == {" ", "\n", "\t", "\r"}
Digits == {"0", "1", "2", "3", "4", "5", "6", "7", "8", "9"}
DigitVal ==
    [c \in Digits |->
        CASE c = "0" -> 0 [] c = "1" -> 1 [] c = "2" -> 2 [] c = "3" -> 3
          [] c = "4" -> 4 [] c = "5" -> 5 [] c = "6" -> 6 [] c = "7" -> 7
          [] c = "8" -> 8 [] c = "9" -> 9]

\* msg.split(' '): the words between single spaces (a word may be empty)
RECURSIVE split(_)
split(msg) ==
    IF \A i \in 1..Len(msg) : msg[i] # " " THEN <<msg>>
    ELSE LET k == CHOOSE i \in 1..Len(msg) :
                     msg[i] = " " /\ \A j \in 1..(i - 1) : msg[j] # " "
         IN  <<SubSeq(msg, 1, k - 1)>> \o split(SubSeq(msg, k + 1, Len(msg)))

\* str.strip(), which int() applies to its argument
RECURSIVE strip(_)
strip(w) ==
    IF w = <<>> THEN w
    ELSE IF w[1] \in Whitespace THEN strip(Tail(w))
    ELSE IF w[Len(w)] \in Whitespace THEN strip(SubSeq(w, 1, Len(w) - 1))
    ELSE w

\* the value of a non-empty sequence of digits
RECURSIVE decimal(_)
decimal(ds) ==
    IF ds = <<>> THEN 0
    ELSE 10 * decimal(SubSeq(ds, 1, Len(ds) - 1)) + DigitVal[ds[Len(ds)]]

\* int(w): <<n>>, or <<>> where int() raises ValueError
int(w) ==
    LET t == strip(w)
        signed == t # <<>> /\ t[1] \in {"+", "-"}
        ds == IF signed THEN Tail(t) ELSE t
    IN  IF ds = <<>> \/ \E i \in 1..Len(ds) : ds[i] \notin Digits THEN None
        ELSE IF signed /\ t[1] = "-" THEN Some(0 - decimal(ds))
        ELSE Some(decimal(ds))

START_RUN == <<"s", "t", "a", "r", "t", "_", "r", "u", "n">>
STOP_RUN  == <<"s", "t", "o", "p", "_", "r", "u", "n">>
POS       == <<"p", "o", "s">>

\* read_msg on a non-empty line, from the socket fields sock = [scanId, scan_x,
\* scan_y]: the fields after it and the exception it raised ("" for none)
read_msg(sock, line) ==
    LET words == split(line)
        ok == [sock EXCEPT !.raised = ""]
    IN  IF words[1] = START_RUN
        THEN IF Len(words) < 2 THEN [ok EXCEPT !.raised = "IndexError"]
             ELSE IF int(words[2]) = None THEN [ok EXCEPT !.raised = "ValueError"]
             ELSE [ok EXCEPT !.scanId = int(words[2])]
        ELSE IF words[1] = STOP_RUN THEN ok
        ELSE IF words[1] = POS
        THEN IF Len(words) < 2 THEN [ok EXCEPT !.raised = "IndexError"]
             ELSE IF int(words[2]) = None THEN [ok EXCEPT !.raised = "ValueError"]
             ELSE LET x == [ok EXCEPT !.scan_x = int(words[2])]
                  IN  IF Len(words) < 3 THEN [x EXCEPT !.raised = "IndexError"]
                      ELSE IF int(words[3]) = None THEN [x EXCEPT !.raised = "ValueError"]
                      ELSE [x EXCEPT !.scan_y = int(words[3])]
        ELSE ok

\* the socket fields read_msg works on
Sock == [scanId |-> scanId, scan_x |-> scan_x, scan_y |-> scan_y, raised |-> ""]

---------------------------------------------------------------------------
(* __checkBitFlipLoop *)

PyList(l) == [t |-> "list", v |-> l]

\* self.bitcounts[byte]
RECURSIVE bitcounts(_)
bitcounts(byte) == IF byte = 0 THEN 0 ELSE (byte % 2) + bitcounts(byte \div 2)

\* onesInBytes
RECURSIVE onesInBytes(_)
onesInBytes(b) == IF b = <<>> THEN 0 ELSE bitcounts(Head(b)) + onesInBytes(Tail(b))

\* function(), for the read function named fn
callFunction(fn, s, rnd) ==
    CASE fn = "readGenConf" -> readGenConf(s, rnd)
      [] fn = "readDAC" -> readDAC(s, rnd)
      [] fn = "readMon" -> readMon(s, rnd)

\* u(), for the corrective action named u
callUpdate(u, s) ==
    CASE u = "updateRegs" -> updateRegs(s)
      [] u = "writeGenConf" -> writeGenConf(s, PyNone).self
      [] u = "writeDAC" -> writeDAC(s, PyNone).self

\* for u in update: u()
RECURSIVE runUpdates(_, _)
runUpdates(us, s) ==
    IF us = <<>> THEN s ELSE runUpdates(Tail(us), callUpdate(Head(us), s))

\* the indices i at which the for loop over range(len(self.lastRead)) reports:
\* the first one with reference[i] != self.lastRead[i], the loop breaks there
ReportedAt(ref, cur) ==
    LET D == {i \in 0..(Len(cur) - 1) : ref[i + 1] # cur[i + 1]}
    IN  IF D = {} THEN <<>>
        ELSE <<CHOOSE i \in D : \A j \in D : i <= j>>

\* a faulty loop that goes on polling after a report whatever update is
ReturnsNever(upd) == FALSE

\* whether the loop returns after a report: only when no update list was given
ReturnsAfterReport(upd) == upd.t = "None"

\* a faulty loop that takes each read as the reference of the next pass
ReferenceFollows(ref, cur) == cur

\* the reference the next iteration compares with: the local is assigned once,
\* before the loop
ReferenceAfter(ref, cur) == ref

\* a faulty report whose "new" record prints the reference again
ReportStale(cnt, ref, cur) ==
    [counter |-> cnt, function |-> function,
     old |-> [ones |-> onesInBytes(ref), scanId |-> scanId, scan_x |-> scan_x,
              scan_y |-> scan_y, bytes |-> ref],
     new |-> [ones |-> onesInBytes(ref), scanId |-> scanId, scan_x |-> scan_x,
              scan_y |-> scan_y, bytes |-> ref]]

\* the two records printed for a mismatch at iteration cnt
Report(cnt, ref, cur) ==
    [counter |-> cnt, function |-> function,
     old |-> [ones |-> onesInBytes(ref), scanId |-> scanId, scan_x |-> scan_x,
              scan_y |-> scan_y, bytes |-> ref],
     new |-> [ones |-> onesInBytes(cur), scanId |-> scanId, scan_x |-> scan_x,
              scan_y |-> scan_y, bytes |-> cur]]

\* what a pass does once function() gave r and the for loop reported at:
\* the corrective actions, or the return
Pass(r, ref, cnt, at) ==
    [self     |-> IF at # <<>> /\ update.t # "None"
                  THEN runUpdates(update.v, r.self) ELSE r.self,
     cur      |-> r.ret.v,
     counter  |-> cnt,
     reports  |-> [k \in 1..Len(at) |-> Report(cnt, ref, r.ret.v)],
     returned |-> at # <<>> /\ ReturnsAfterReport(update)]

\* the comparison of a pass, once function() gave r
Compare(r, ref, cnt) == Pass(r, ref, cnt, ReportedAt(ref, r.ret.v))

\* one pass of the while loop, from self.lastRead = function() to the sleep or
\* the return, on object s with reference ref and counter cnt
Iteration(s, ref, cnt, rnd) == Compare(callFunction(function, s, rnd), ref, cnt + 1)

\* the draws of one block read: the byte indices at which random.randint(0,999)
\* gives 0, each with its random.randint(0,7)
FlipAt == {0, 1}
Shifts == {1, 7}
Rnds == IF simReadFlip THEN UNION {[S -> Shifts] : S \in SUBSET FlipAt} ELSE {<<>>}

\* polls per run
MaxPolls == 2

\* the event loop runs the tasks: run_until_complete has not returned, and the
\* thread is not held by a task that never yields
TasksRun == supPc = "gather" /\ subPc # "spin"

\* the state after a pass it of the loop; first is <<the reference read>> for the
\* first pass and <<>> after
AfterIteration(ref, first, it) ==
    /\ simRegs' = it.self.simRegs
    /\ simAddrMSB' = it.self.simAddrMSB
    /\ simAddrLSB' = it.self.simAddrLSB
    /\ lastRead' = it.cur
    /\ reference' = ReferenceAfter(ref, it.cur)
    /\ counter' = it.counter
    /\ reads' = reads \o first \o <<it.cur>>
    /\ out' = out \o it.reports
    /\ bitFlipFound' = (bitFlipFound \/ it.reports # <<>>)
    /\ bitFlipResult' = IF it.reports # <<>> THEN <<ref, it.cur>> ELSE bitFlipResult
    /\ loopPc' = IF it.returned THEN "done" ELSE "sleeping"
    /\ UNCHANGED <<beamControl, apiVars, function, update, supPc, subPc, simReadFlip,
                   sockVars>>

\* the task's first step: the reference read and the first pass
LoopFirst ==
    /\ TasksRun
    /\ loopPc = "ready"
    /\ \E rnd0 \in Rnds, rnd1 \in Rnds :
         \E r0 \in {callFunction(function, Self, rnd0)} :
           \E it \in {Iteration(r0.self, r0.ret.v, 0, rnd1)} :
             AfterIteration(r0.ret.v, <<r0.ret.v>>, it)

\* the task's step after asyncio.sleep(interval): the next pass
LoopNext ==
    /\ TasksRun
    /\ loopPc = "sleeping"
    /\ counter < MaxPolls
    /\ \E rnd \in Rnds :
         \E it \in {Iteration(Self, reference, counter, rnd)} :
           AfterIteration(reference, <<>>, it)

---------------------------------------------------------------------------
(* runBitFlipSearch, __asyncBitFlips and __readScanPos *)

Functions == {"readGenConf", "readDAC", "readMon"}
Updates == {PyNone, PyList(<<>>), PyList(<<"updateRegs">>)}

\* the lines the beam-position server sends
Lines ==
    {<<"s", "t", "a", "r", "t", "_", "r", "u", "n", " ", "4", "2", "\n">>,
     <<"p", "o", "s", " ", "1", "0", " ", "2", "0", "\n">>,
     <<"p", "o", "s", " ", "1", "1", " ", "y", "\n">>,
     <<"p", "o", "s", " ", "x", " ", "y", "\n">>,
     <<"p", "o", "s", " ", "1", "2", "\n">>,
     <<"s", "t", "o", "p", "_", "r", "u", "n", "\n">>}

\* runBitFlipSearch(interval, function, update, simReadFlip) up to the first
\* await of __asyncBitFlips, with its arguments taken from Fns, Upds and Flips
RunBitFlipSearch(Fns, Upds, Flips) ==
    /\ CanCall
    /\ \E fn \in Fns, upd \in Upds, flip \in Flips :
         /\ simReadFlip' = flip
         /\ function' = fn
         /\ update' = upd
         /\ call' = [name |-> "runBitFlipSearch"]
    /\ ncalls' = ncalls + 1
    /\ supPc' = IF beamControl THEN "connecting" ELSE "gather"
    /\ loopPc' = IF beamControl THEN loopPc ELSE "ready"
    /\ UNCHANGED <<beamControl, devVars, wire, buf, ret, subPc, reference, counter,
                   reads, out, bitFlipFound, bitFlipResult, sockVars>>

\* asyncio.open_connection succeeds: both tasks are created, gather is awaited
ConnectOk ==
    /\ supPc = "connecting"
    /\ conn' = "open"
    /\ supPc' = "gather"
    /\ loopPc' = "ready"
    /\ subPc' = "waiting"
    /\ UNCHANGED <<beamControl, devVars, apiVars, function, update, reference, counter,
                   reads, out, bitFlipFound, bitFlipResult, simReadFlip, scanId,
                   scan_x, scan_y>>

\* asyncio.open_connection raises: the exception leaves runBitFlipSearch
ConnectFail ==
    /\ supPc = "connecting"
    /\ supPc' = "failed"
    /\ ret' = PyRaise("OSError")
    /\ UNCHANGED <<beamControl, devVars, ncalls, wire, call, buf, function, update,
                   loopPc, subPc, reference, counter, reads, out, bitFlipFound,
                   bitFlipResult, simReadFlip, sockVars>>

\* a line arrives and __readScanPos, resumed, has read_msg parse it
SubReadLine(line) ==
    /\ TasksRun
    /\ subPc = "waiting"
    /\ LET m == read_msg(Sock, line)
       IN  /\ scanId' = m.scanId
           /\ scan_x' = m.scan_x
           /\ scan_y' = m.scan_y
           /\ subPc' = IF m.raised = "" THEN "waiting" ELSE m.raised
    /\ UNCHANGED <<beamControl, devVars, apiVars, function, update, supPc, loopPc,
                   reference, counter, reads, out, bitFlipFound, bitFlipResult,
                   simReadFlip, conn>>

\* the stream ends: readline returns b'' at once, read_msg returns None and the
\* while True loop calls it again, without ever suspending
SubEof ==
    /\ TasksRun
    /\ subPc = "waiting"
    /\ subPc' = "spin"
    /\ UNCHANGED <<beamControl, devVars, apiVars, function, update, supPc, loopPc,
                   reference, counter, reads, out, bitFlipFound, bitFlipResult,
                   simReadFlip, sockVars>>

SubRaised == subPc \in {"ValueError", "IndexError"}

\* asyncio.gather resumes __asyncBitFlips: with the exception of a task that
\* raised, or once every task it was given has finished
Gather ==
    /\ TasksRun
    /\ \/ /\ SubRaised
          /\ supPc' = "failed"
          /\ ret' = PyRaise(subPc)
       \/ /\ ~SubRaised
          /\ loopPc = "done"
          /\ beamControl => subPc = "closed"
          /\ supPc' = "done"
          /\ ret' = PyList(bitFlipResult)
    /\ UNCHANGED <<beamControl, devVars, ncalls, wire, call, buf, function, update,
                   loopPc, subPc, reference, counter, reads, out, bitFlipFound,
                   bitFlipResult, simReadFlip, sockVars>>

\* KeyboardInterrupt while run_until_complete runs: it leaves runBitFlipSearch
Interrupt ==
    /\ supPc \in {"connecting", "gather"}
    /\ supPc' = "interrupted"
    /\ ret' = PyRaise("KeyboardInterrupt")
    /\ UNCHANGED <<beamControl, devVars, ncalls, wire, call, buf, function, update,
                   loopPc, subPc, reference, counter, reads, out, bitFlipFound,
                   bitFlipResult, simReadFlip, sockVars>>

(* SpecLoop: one call of runBitFlipSearch on an object without beam control *)
InitLoop == \E o \in PriorObjects : Fresh(o, FALSE)

NextLoop ==
    \/ RunBitFlipSearch(Functions, Updates, BOOLEAN)
    \/ LoopFirst
    \/ LoopNext
    \/ Gather
    \/ Interrupt

SpecLoop == InitLoop /\ [][NextLoop]_vars

(* SpecRun: one call of runBitFlipSearch on an object with or without beam *)
(* control, with the server sending lines and closing the stream           *)
InitRun == \E o \in PriorObjects, bc \in BOOLEAN : Fresh(o, bc)

NextRun ==
    \/ RunBitFlipSearch(Functions, {PyNone, PyList(<<"updateRegs">>)}, BOOLEAN)
    \/ ConnectOk
    \/ ConnectFail
    \/ LoopFirst
    \/ LoopNext
    \/ \E line \in Lines : SubReadLine(line)
    \/ SubEof
    \/ Gather
    \/ Interrupt

SpecRun == InitRun /\ [][NextRun]_vars

\* SpecRunFair: the event loop resumes __asyncBitFlips once gather is due
SpecRunFair == SpecRun /\ WF_vars(Gather)

---------------------------------------------------------------------------
(* Properties of the block operations *)

WriteOf == [GenConf |-> "writeGenConf", DAC |-> "writeDAC",
            RoTstConf |-> "writeRoTstConf", MFE |-> "writeMFE"]
ReadOf  == [GenConf |-> "readGenConf", DAC |-> "readDAC",
            RoTstConf |-> "readRoTstConf", MFE |-> "readMFE"]

\* the latest call wrote the bytes buf.v, as many as block B has, with B's
\* write operation
Wrote(B) ==
    /\ call.name = WriteOf[B]
    /\ buf.t = "bytes"
    /\ Len(buf.v) = BlockSize(B)

\* C1: for each block B of GenConf, DAC, RoTstConf and MFE, when a call of B's
\* write operation with a byte sequence of B's size (the caller's, or the
\* default) is followed at once by a call of B's read operation, with no read
\* corruption, the read returns exactly the bytes written, whatever the store
\* held before the write.
C1_RoundTrip ==
    [][\A B \in DOMAIN WriteOf :
         (Wrote(B) /\ ~simReadFlip /\ ncalls' = ncalls + 1 /\ call'.name = ReadOf[B])
           => ret' = buf]_vars

\* a read of MFE returns the 512 bytes the call before it wrote over a store
\* that updateRegs() had filled
C1_Witness ==
    /\ call.name = "readMFE"
    /\ ncalls = 2
    /\ ret = PyBytes(Ramp(MFESize))
    /\ 0 \in DOMAIN simRegs

\* the latest call handed rwReg16w a buffer one byte shorter than the block of
\* GenConf, DAC, Mon it names
ShortCall(c) ==
    /\ c.name \in {"rwReg16w", "writeGenConf", "writeDAC", "writeMon"}
    /\ c.type \in {"GenConf", "DAC", "Mon"}
    /\ c.arg.t = "bytes"
    /\ Len(c.arg.v) = BlockSize(c.type) - 1

\* C5: a read or write of GenConf, DAC or Mon with a buffer one byte shorter
\* than the block (15 bytes for GenConf, 14 for DAC and Mon) fails (it returns
\* False), makes no transport call at all, and leaves the simulated store and
\* the row and column selectors as they were.
C5_ShortBufferRefused ==
    [][(ncalls' = ncalls + 1 /\ ShortCall(call'))
         => /\ ret' = PyBool(FALSE)
            /\ wire' = <<>>
            /\ simRegs' = simRegs
            /\ simAddrMSB' = simAddrMSB
            /\ simAddrLSB' = simAddrLSB]_vars

\* a 14-byte buffer was handed to a Mon read or write on an object whose store
\* and selectors an earlier call had set
C5_Witness ==
    /\ ncalls = 2
    /\ ShortCall(call)
    /\ call.type = "Mon"
    /\ simAddrLSB # None
    /\ simRegs # InitSimRegs

---------------------------------------------------------------------------
(* Properties of the detection loop.  reads is every value function()      *)
(* returned in the run, reads[1] being the reference read; out is every    *)
(* report printed.                                                         *)

\* the loop has taken its reference read
Polling == loopPc \in {"sleeping", "done"}

\* the polls (1 for the first) whose read differs from the reference read
Mismatches == {k \in 1..(Len(reads) - 1) : reads[k + 1] # reads[1]}

\* the byte indices at which a and b differ
DiffAt(a, b) == {i \in 1..Len(a) : a[i] # b[i]}

\* C2: with no corrective-action list, the loop ends after exactly one reported
\* mismatch: it has not ended while every read equals the reference read, and
\* once a read differs it has ended, that read is the last one made and the
\* only report is the one for it.
C2_EndsAtFirstMismatch ==
    (Polling /\ update = PyNone) =>
        /\ (loopPc = "done") <=> (Mismatches # {})
        /\ Mismatches = {} => out = <<>>
        /\ Mismatches # {} =>
             /\ Mismatches = {Len(reads) - 1}
             /\ Len(out) = 1
             /\ out[1].counter = Len(reads) - 1

\* a run without corrective actions ended at its second poll, after a first
\* poll that read the reference again
C2_Witness ==
    /\ update = PyNone
    /\ loopPc = "done"
    /\ Len(reads) = 3
    /\ reads[2] = reads[1]
    /\ Len(out) = 1

\* C3: for a read that differs from the reference read in exactly one byte,
\* the loop records exactly one event; its reference snapshot is the reference
\* read and its observed snapshot is that read, so the two differ at that byte
\* index and at no other.  A run without corrective actions records one event
\* in all.
C3_EventSnapshots ==
    Polling =>
        /\ \A k \in 1..(Len(reads) - 1) :
             Cardinality(DiffAt(reads[1], reads[k + 1])) = 1 =>
                /\ Cardinality({e \in 1..Len(out) : out[e].counter = k}) = 1
                /\ \A e \in 1..Len(out) :
                     out[e].counter = k =>
                        /\ out[e].old.bytes = reads[1]
                        /\ out[e].new.bytes = reads[k + 1]
                        /\ DiffAt(out[e].old.bytes, out[e].new.bytes)
                             = DiffAt(reads[1], reads[k + 1])
        /\ update = PyNone => Len(out) <= 1

\* a readGenConf run has recorded the event of a read whose first byte came
\* back as 0xC0 where the reference read has 0x40
C3_Witness ==
    /\ function = "readGenConf"
    /\ Len(out) = 1
    /\ out[1].old.bytes = GenConfDefault
    /\ DiffAt(out[1].old.bytes, out[1].new.bytes) = {1}
    /\ out[1].new.bytes[1] = 192

\* C4: with a corrective-action list, the loop goes on polling after a report
\* and its corrective actions, and every comparison is made with the reference
\* read: the reference is never changed, the polls reported are exactly those
\* whose read differs from the reference read, and each report shows the
\* reference read as its old bytes.  After a report with update = [updateRegs]
\* the column selector is where the last write of updateRegs left it.
C4_ReferenceKept ==
    (Polling /\ update.t = "list") =>
        /\ loopPc = "sleeping"
        /\ reference = reads[1]
        /\ {out[e].counter : e \in 1..Len(out)} = Mismatches
        /\ \A e \in 1..Len(out) : out[e].old.bytes = reads[1]
        /\ (update.v = <<"updateRegs">> /\ (Len(reads) - 1) \in Mismatches)
             => simAddrLSB = Some(BitOr(ADDRS["DAC"][2], DACSize - 1))

\* a run with update = [updateRegs] reported its first poll and then polled
\* again, reading the reference again
C4_Witness ==
    /\ update = PyList(<<"updateRegs">>)
    /\ Len(reads) = 3
    /\ reads[2] # reads[1]
    /\ reads[3] = reads[1]
    /\ Len(out) = 1
    /\ loopPc = "sleeping"

---------------------------------------------------------------------------
(* Properties of the run with beam control *)

\* runBitFlipSearch has returned or raised
Ended == supPc \in {"done", "failed", "interrupted"}

\* C6: with beam control, the run ends as soon as either task has finished:
\* once the detection loop has reported and returned, runBitFlipSearch
\* eventually returns, though the subscriber still waits for a line.
C6_EndsWhenLoopDone == (beamControl /\ loopPc = "done") ~> Ended

\* C7: the subscriber never holds the detection loop back: as long as a run
\* with beam control goes on and the loop has polls left to make, the loop can
\* take its next step, whatever the connection and the stream are doing.
C7_LoopNeverGated ==
    (beamControl /\ supPc \in {"connecting", "gather"} /\ loopPc # "done"
       /\ counter < MaxPolls)
        => ENABLED (LoopFirst \/ LoopNext)

\* the line is start_run or pos followed by a field that int() refuses
Malformed(line) ==
    LET words == split(line)
    IN  \/ words[1] = START_RUN /\ Len(words) >= 2 /\ int(words[2]) = None
        \/ /\ words[1] = POS
           /\ Len(words) >= 3
           /\ int(words[2]) = None \/ int(words[3]) = None

\* C8: a line with a malformed numeric field leaves scanId, scan_x and scan_y
\* as they were and the subscriber waiting for the next line.
C8_MalformedLineSkipped ==
    [][\A line \in {l \in Lines : Malformed(l)} :
         SubReadLine(line) =>
            /\ UNCHANGED <<scanId, scan_x, scan_y>>
            /\ subPc' = "waiting"]_vars

\* C9: at the end of the stream the subscriber is closed: it stops reading and
\* its task ends without an exception.
C9_ClosedAtEof == [][SubEof => subPc' = "closed"]_vars

\* C10: once runBitFlipSearch has returned or raised, neither task is left
\* unfinished and the connection is not open any more.
C10_NothingLeftBehind ==
    Ended =>
        /\ loopPc \notin {"ready", "sleeping"}
        /\ subPc \notin {"waiting", "spin"}
        /\ conn # "open"

---------------------------------------------------------------------------
(* Further properties of the block operations *)

\* C11: a block operation that succeeds returns the number of bytes it
\* transferred, and that number is the size of the block (16 for GenConf, 15
\* for DAC and Mon), whatever buffer it accepted.
C11_ReturnsBlockSize ==
    (call.name = "rwReg16w" /\ ret.t = "int") => ret.v = BlockSize(call.type)

---------------------------------------------------------------------------
(* getCmdByte on objects constructed with any chip id *)

\* the largest chipid argument handed to Msis1(...)
MaxChipId == 9

\* the cmdId arguments handed to getCmdByte: the nine commands and one that
\* self.CMDID does not hold
CmdIds == DOMAIN CMDID \cup {"NOP"}

\* Msis1(sim=True, chipid=chip).getCmdByte(cmdId): self.CMDID[cmdId] raises
\* KeyError for a key it does not hold
CallGetCmdByte ==
    /\ CanCall
    /\ \E chip \in 0..MaxChipId, cmdId \in CmdIds :
         /\ call' = [name |-> "getCmdByte", chipid |-> chip, cmdId |-> cmdId]
         /\ ret' = IF cmdId \in DOMAIN CMDID THEN PyInt(cmdByte(chip, cmdId))
                   ELSE PyRaise("KeyError")
    /\ ncalls' = ncalls + 1
    /\ wire' = <<>>
    /\ UNCHANGED <<beamControl, devVars, buf, runVars, sockVars>>

(* SpecCmd: calls of getCmdByte *)
InitCmd == Fresh(ConstructedSelf, FALSE)

NextCmd == CallGetCmdByte

SpecCmd == InitCmd /\ [][NextCmd]_vars

\* the latest call computed the header byte of a chip id in 1..7 and one of
\* the nine commands
ValidHeaderCall ==
    /\ call.name = "getCmdByte"
    /\ call.chipid \in 1..7
    /\ call.cmdId \in DOMAIN CMDID

\* C12: for chip ids 1..7 and the nine commands (codes 1..9) the header byte
\* decodes back to its pair, chip id = byte >> 4 and command code = byte & 0xF,
\* and no other pair of a chip id in 1..7 and a command gives the same byte.
C12_HeaderInjective ==
    ValidHeaderCall =>
        /\ ret.t = "int"
        /\ ret.v \in 0..255
        /\ ret.v \div 16 = call.chipid
        /\ ret.v % 16 = CMDID[call.cmdId]
        /\ CMDID[call.cmdId] \in 1..9
        /\ \A chip \in 1..7, cmdId \in DOMAIN CMDID :
             cmdByte(chip, cmdId) = ret.v => (chip = call.chipid /\ cmdId = call.cmdId)

\* the header byte 0x75 of chip 7 and command RD was computed
C12_Witness ==
    /\ ValidHeaderCall
    /\ call.chipid = 7
    /\ call.cmdId = "RD"
    /\ ret = PyInt(117)

\* C13: computing a header byte fails, and gives no byte, when the chip id is
\* outside 1..7 or the command is not one of the nine; a chip id outside the
\* range is never reduced to its low three bits.
C13_InvalidRefused ==
    (call.name = "getCmdByte"
       /\ (call.chipid \notin 1..7 \/ call.cmdId \notin DOMAIN CMDID))
        => ret.t = "raise"

---------------------------------------------------------------------------
(* The transactions of one block operation *)

\* the mode of the block operation c
ModeOf(c) ==
    IF c.name = "rwReg16w" THEN c.mode
    ELSE IF c.name \in {"readGenConf", "readDAC", "readMon"} THEN "r"
    ELSE "w"

\* the transport calls of one transfer of block type in mode mode with the
\* bytes data: ADD_MSB with the base row, then for i = 0..n-1 ADD_LSB with
\* (base column & 0xF0) | i followed by one RD or one WR of data[i]
BlockTransactions(type, mode, data) ==
    [k \in 1..(1 + 2 * BlockSize(type)) |->
        IF k = 1 THEN <<"write", getCmdByte("ADD_MSB"), <<ADDRS[type][1]>>>>
        ELSE IF k % 2 = 0
        THEN <<"write", getCmdByte("ADD_LSB"),
               <<BitOr(BitAnd(ADDRS[type][2], 240), (k - 2) \div 2)>>>>
        ELSE IF mode = "r" THEN <<"read", getCmdByte("RD")>>
        ELSE <<"write", getCmdByte("WR"), <<data[(k - 1) \div 2]>>>>]

\* the latest call was a read or write of GenConf, DAC or Mon that was accepted
AcceptedReg16w ==
    /\ call.name \in {"rwReg16w", "readGenConf", "readDAC", "readMon",
                      "writeGenConf", "writeDAC", "writeMon"}
    /\ call.type \in {"GenConf", "DAC", "Mon"}
    /\ ret.t \in {"int", "bytes"}

\* C14: an accepted read or write of a block of size n issues exactly one
\* ADD_MSB with the block's base row, then for i = 0..n-1 in order one ADD_LSB
\* with (base column & 0xF0) | i followed by one single-byte RD or WR: 1 + 2n
\* transactions and nothing else.
C14_TransactionSequence ==
    AcceptedReg16w => wire = BlockTransactions(call.type, ModeOf(call), buf.v)

---------------------------------------------------------------------------
(* Further properties of the detection loop *)

\* C15: a run of the detection loop, with or without corrective actions,
\* reports at most one mismatch, the first, and the result it recorded for it
\* (reference bytes, observed bytes) is not replaced by a later pass.
C15_AtMostOneEvent ==
    Polling =>
        /\ Len(out) <= 1
        /\ out # <<>> => bitFlipResult = <<out[1].old.bytes, out[1].new.bytes>>

---------------------------------------------------------------------------
(* SpecWrites: the write operations of the five blocks, called with the   *)
(* default, with buffers of the block's size and with a buffer one byte   *)
(* short                                                                  *)
InitWrites == \E o \in PriorObjects : Fresh(o, FALSE)

NextWrites ==
    \/ CallWriteGenConf(AnyArgs("GenConf"))
    \/ CallWriteDAC(AnyArgs("DAC"))
    \/ CallWriteMon(AnyArgs("Mon"))
    \/ CallWriteRoTstConf(AnyArgs("RoTstConf"))
    \/ CallWriteMFE(AnyArgs("MFE"))

SpecWrites == InitWrites /\ [][NextWrites]_vars

\* c is a write of a block with a buffer smaller than the block
ShortWrite(c) ==
    /\ c.name \in {"writeGenConf", "writeDAC", "writeMon", "writeRoTstConf", "writeMFE"}
    /\ c.arg.t = "bytes"
    /\ Len(c.arg.v) < BlockSize(c.type)

\* C16: a write of any block with a buffer smaller than the block fails and
\* leaves the block as it was: the store after the call equals the store
\* before it, and the call issued no WR.
C16_NoPartialWrite ==
    [][(ncalls' = ncalls + 1 /\ ShortWrite(call'))
         => /\ ret'.t \in {"bool", "raise"}
            /\ simRegs' = simRegs
            /\ \A k \in 1..Len(wire') : wire'[k][2] # getCmdByte("WR")]_vars

\* the columns of the Mon cells and of the DAC cells of row 0x00
MonColumns == 224..238
DACColumns == 64..78

\* C17: readMon and writeMon address only the Mon cells (row 0x00, columns
\* 0xE0..0xEE): every ADD_LSB they issue carries a Mon column, and no DAC cell
\* (columns 0x40..0x4E) is changed by them.
C17_MonAddressesMon ==
    [][(ncalls' = ncalls + 1 /\ call'.name \in {"readMon", "writeMon"})
         => /\ \A k \in 1..Len(wire') :
                 wire'[k][2] = getCmdByte("ADD_LSB") => wire'[k][3][1] \in MonColumns
            /\ \A l \in DACColumns : Cell(simRegs', 0, l) = Cell(simRegs, 0, l)]_vars

---------------------------------------------------------------------------
(* SpecByte: read() of one cell with simReadFlip set.  The object is one   *)
(* on which a run with simReadFlip=True has ended (line 343 sets the flag  *)
(* and nothing clears it) and whose addressed cell holds any byte.         *)

Bytes == 0..255

\* the object u after write(WR, b)
CellHolds(u, b) == write(u, getCmdByte("WR"), <<b>>)

\* the state in which the object is o with simReadFlip = flip, no socket is in
\* use and no call of the session modelled was made yet
Settled(o, flip) ==
    /\ simRegs = o.simRegs
    /\ simAddrMSB = o.simAddrMSB
    /\ simAddrLSB = o.simAddrLSB
    /\ lastRead = o.lastRead
    /\ simReadFlip = flip
    /\ beamControl = FALSE
    /\ bitFlipFound = FALSE
    /\ bitFlipResult = <<>>
    /\ conn = "none"
    /\ scanId = Some(0)
    /\ scan_x = Some(0)
    /\ scan_y = Some(0)
    /\ ncalls = 0
    /\ wire = <<>>
    /\ call = [name |-> "none"]
    /\ buf = PyNone
    /\ ret = PyNone
    /\ function = "none"
    /\ update = PyNone
    /\ supPc = "idle"
    /\ loopPc = "none"
    /\ subPc = "none"
    /\ reference = <<>>
    /\ counter = 0
    /\ reads = <<>>
    /\ out = <<>>

InitByte ==
    \E u \in {updateRegs(ConstructedSelf)} : \E b \in Bytes :
       \E o \in {CellHolds(u, b)} : Settled(o, TRUE)

\* what read(RD) returns when the draws of random are rnd: indexing simRegs
\* with an address that was never set raises
readReturns(rnd) ==
    IF simAddrMSB = None \/ simAddrLSB = None THEN PyRaise("TypeError")
    ELSE PyInt(read(Self, getCmdByte("RD"), rnd, 0))

\* read(RD) in which random.randint(0,999) gives 0 and random.randint(0,7)
\* gives a k of Ks
CallReadFired(Ks) ==
    /\ CanCall
    /\ simReadFlip
    /\ \E k \in Ks :
         /\ call' = [name |-> "read", fired |-> TRUE, k |-> k]
         /\ ret' = readReturns(0 :> k)
    /\ ncalls' = ncalls + 1
    /\ wire' = logRead(Self, getCmdByte("RD")).wire
    /\ UNCHANGED <<beamControl, devVars, buf, runVars, sockVars>>

\* read(RD) in which no bit is drawn: simReadFlip is not set, or
\* random.randint(0,999) gives another number
CallReadPlain ==
    /\ CanCall
    /\ call' = [name |-> "read", fired |-> FALSE]
    /\ ret' = readReturns(<<>>)
    /\ ncalls' = ncalls + 1
    /\ wire' = logRead(Self, getCmdByte("RD")).wire
    /\ UNCHANGED <<beamControl, devVars, buf, runVars, sockVars>>

NextByte == CallReadFired(0..7) \/ CallReadPlain

SpecByte == InitByte /\ [][NextByte]_vars

\* the byte the transport holds at the address selected
TransportByte == Cell(simRegs, simAddrMSB[1], simAddrLSB[1])[1]

\* C18: when the fault injection fires, the byte read() returns is within
\* 0..255 and differs from the byte the transport returned in exactly one
\* bit, for every byte 0..255 and every bit choice 0..7.
C18_FlipsOneBit ==
    (call.name = "read" /\ call.fired)
        => (ret.t = "int" /\ ret.v \in Bytes /\ bitcounts(BitXor(ret.v, TransportByte)) = 1)

---------------------------------------------------------------------------
(* Further properties of a run with beam control *)

\* the well-formed pos lines among those the server sends
PosLines == {l \in Lines : split(l)[1] = POS /\ read_msg(Sock, l).raised = ""}

\* the scan positions a report can carry whole: the one before any pos line,
\* and the one of each pos line
WholePositions ==
    {<<None, None>>} \cup {<<read_msg(Sock, l).scan_x, read_msg(Sock, l).scan_y>> : l \in PosLines}

\* C19: the scan position of a report is never torn: its x and y are those of
\* one pos line, or both the initial ones, and the old and the new record of
\* the report carry the same scan position.
C19_ScanPositionWhole ==
    beamControl =>
        \A i \in 1..Len(out) :
            /\ <<out[i].old.scan_x, out[i].old.scan_y>> \in WholePositions
            /\ out[i].new.scanId = out[i].old.scanId
            /\ out[i].new.scan_x = out[i].old.scan_x
            /\ out[i].new.scan_y = out[i].old.scan_y

---------------------------------------------------------------------------
(* SpecStore: the simulated store under single transactions, block reads   *)
(* with and without a bit drawn, and block writes                          *)

\* payload bytes of the single transactions
StoreBytes == {0, 65}

\* write(cmd, b) for the commands writeSim knows; WR with an address that was
\* never set raises when it indexes simRegs
CallWrite ==
    /\ CanCall
    /\ \E cmdId \in {"ADD_MSB", "ADD_LSB", "WR"}, b \in StoreBytes :
         /\ call' = [name |-> "write", cmdId |-> cmdId, arg |-> b]
         /\ IF cmdId = "WR" /\ (simAddrMSB = None \/ simAddrLSB = None)
            THEN /\ ret' = PyRaise("TypeError")
                 /\ wire' = <<<<"write", getCmdByte(cmdId), <<b>>>>>>
                 /\ UNCHANGED devVars
            ELSE \E o \in {write(Self, getCmdByte(cmdId), <<b>>)} :
                 /\ ret' = PyInt(1)
                 /\ wire' = o.wire
                 /\ simRegs' = o.simRegs
                 /\ simAddrMSB' = o.simAddrMSB
                 /\ simAddrLSB' = o.simAddrLSB
                 /\ lastRead' = o.lastRead
    /\ ncalls' = ncalls + 1
    /\ UNCHANGED <<beamControl, buf, runVars, sockVars>>

\* readGenConf() or readDAC() in which a bit is drawn for the first byte
CallReadFlipped ==
    /\ CanCall
    /\ simReadFlip
    /\ \E fn \in {"readGenConf", "readDAC"}, rnd \in [{0} -> Shifts] :
         Effect([name |-> fn, type |-> IF fn = "readGenConf" THEN "GenConf" ELSE "DAC",
                 rnd |-> rnd],
                callFunction(fn, Self, rnd))

InitStore == \E o \in PriorObjects, flip \in BOOLEAN : Settled(o, flip)

NextStore ==
    \/ CallWrite
    \/ CallReadPlain
    \/ CallReadFired(Shifts)
    \/ CallReadGenConf
    \/ CallReadDAC
    \/ CallReadRoTstConf
    \/ CallReadFlipped
    \/ CallWriteGenConf(FullArgs("GenConf"))

SpecStore == InitStore /\ [][NextStore]_vars

\* every cell of the store is as __init__ made it
AllZero(regs) == \A m \in Bytes, l \in Bytes : Cell(regs, m, l) = <<0, 0>>

\* c is a read in which no bit was drawn
PlainRead(c) ==
    \/ c.name = "read" /\ ~c.fired
    \/ c.name \in {"readGenConf", "readDAC", "readRoTstConf"} /\ "rnd" \notin DOMAIN c

\* c issues no WR: a read, or a single ADD_MSB or ADD_LSB
IssuesNoWR(c) ==
    \/ c.name \in {"read", "readGenConf", "readDAC", "readRoTstConf"}
    \/ c.name = "write" /\ c.cmdId \in {"ADD_MSB", "ADD_LSB"}

\* C20: the store is all-zero after construction and is changed only by WR:
\* a call that changes a cell issued a WR, so ADD_MSB, ADD_LSB, RD, block
\* reads and reads in which a bit is drawn leave every cell as it was; and two
\* successive reads of one block in which no bit is drawn return the same
\* bytes.
C20_StoreChangedOnlyByWR ==
    /\ (simAddrMSB = None => AllZero(simRegs))
    /\ [][ncalls' = ncalls + 1 =>
            /\ simRegs' # simRegs =>
                 \E k \in 1..Len(wire') :
                    wire'[k][1] = "write" /\ wire'[k][2] = getCmdByte("WR")
            /\ IssuesNoWR(call') => simRegs' = simRegs
            /\ (PlainRead(call) /\ call' = call) => ret' = ret]_vars

\* a readGenConf in which a bit was drawn returned 0xC0 for the first byte,
\* and the cell still holds 0x40
C20_Witness ==
    /\ call.name = "readGenConf"
    /\ "rnd" \in DOMAIN call
    /\ ret.t = "bytes"
    /\ ret.v[1] = 192
    /\ Cell(simRegs, 0, 32) = <<64>>

---------------------------------------------------------------------------
(* The cells the four blocks occupy *)

\* the transaction e seen by the simulated chip in address state st: ADD_MSB
\* and ADD_LSB select a cell, RD and WR address the cell selected
addressStep(st, e) ==
    IF e[1] = "write" /\ e[2] = getCmdByte("ADD_MSB") THEN [st EXCEPT !.m = e[3][1]]
    ELSE IF e[1] = "write" /\ e[2] = getCmdByte("ADD_LSB") THEN [st EXCEPT !.l = e[3][1]]
    ELSE [st EXCEPT !.cells = Append(@, <<st.m, st.l>>)]

RECURSIVE addressFold(_, _, _, _)
\* the transactions w[lo..hi-1] one after the other, from address state st
addressFold(w, lo, hi, st) ==
    IF hi <= lo \/ st.m < 0 THEN st
    ELSE IF hi = lo + 1 THEN addressStep(st, w[lo])
    ELSE addressFold(w, (lo + hi) \div 2, hi,
                     addressFold(w, lo, (lo + hi) \div 2, st))

\* the cells <<row, column>> the transactions w address, in order
Addressed(w) == addressFold(w, 1, Len(w) + 1, [m |-> 0, l |-> 0, cells |-> <<>>]).cells

\* the cell <<row, column>> of byte i (from 0) of each block, by the address
\* arithmetic of rwReg16w, rwRoTstConf and rwMFE
BlockCells ==
    [GenConf   |-> [i \in 1..GenConfSize |->
                      <<ADDRS["GenConf"][1], BitOr(BitAnd(ADDRS["GenConf"][2], 240), i - 1)>>],
     DAC       |-> [i \in 1..DACSize |->
                      <<ADDRS["DAC"][1], BitOr(BitAnd(ADDRS["DAC"][2], 240), i - 1)>>],
     RoTstConf |-> [i \in 1..RoTstConfSize |-> <<ADDRS["RoTstConf"][1], 64 + (i - 1)>>],
     MFE       |-> [i \in 1..MFESize |->
                      <<BitOr(BitAnd(ADDRS["MFE"][1], 128), BitAnd((i - 1) \div MFEFrames, 63)),
                        BitOr(BitAnd(ADDRS["MFE"][2], 248), BitAnd((i - 1) % MFEFrames, 7))>>]]

CellSet(B) == {BlockCells[B][i] : i \in 1..Len(BlockCells[B])}

\* the bytes the store regs holds in the cells of block B
StoredAt(regs, B) ==
    [i \in 1..Len(BlockCells[B]) |-> Cell(regs, BlockCells[B][i][1], BlockCells[B][i][2])[1]]

\* C21: the cells addressed by the GenConf, DAC, RoTstConf and MFE operations
\* are pairwise disjoint.  A block that was never written reads as zeros; a
\* write of a block addresses the block's cells only, puts its bytes into them
\* and leaves the bytes of the three other blocks as they were; a read of a
\* block addresses the same cells, returns their bytes and changes none: so
\* every block reads as the bytes of the most recent write to it, whatever
\* was written to the other blocks.
C21_BlocksDisjoint ==
    /\ \A B \in DOMAIN WriteOf :
          /\ Len(BlockCells[B]) = BlockSize(B)
          /\ \A B2 \in DOMAIN WriteOf \ {B} : CellSet(B) \cap CellSet(B2) = {}
          /\ simRegs = InitSimRegs => StoredAt(simRegs, B) = Zeros(BlockSize(B))
    /\ [][ncalls' = ncalls + 1 =>
            \A B \in DOMAIN WriteOf :
               /\ call'.name = WriteOf[B] =>
                    /\ Addressed(wire') = BlockCells[B]
                    /\ StoredAt(simRegs', B) = buf'.v
                    /\ \A B2 \in DOMAIN WriteOf \ {B} :
                          StoredAt(simRegs', B2) = StoredAt(simRegs, B2)
               /\ call'.name = ReadOf[B] =>
                    /\ Addressed(wire') = BlockCells[B]
                    /\ ret'.v = StoredAt(simRegs, B)
                    /\ simRegs' = simRegs]_vars

\* readGenConf returns the defaults updateRegs() wrote, after writeMFE wrote
\* 512 other bytes in between
C21_Witness ==
    /\ ncalls = 2
    /\ call.name = "readGenConf"
    /\ ret = PyBytes(GenConfDefault)
    /\ 128 \in DOMAIN simRegs
    /\ 7 \in DOMAIN simRegs[128]
    /\ simRegs[128][7] = <<Ramp(MFESize)[8]>>

============================================================================
